---- MODULE Spec2Model ----
(***************************************************************************)
(* A model of flow_log_processor.py: main() loads a lookup table from a    *)
(* comma-delimited file, aggregates a whitespace-delimited flow log into   *)
(* two count tables, and writes a two-section text report.                 *)
(*                                                                         *)
(* Text is modelled as a sequence of one-character strings, so that        *)
(* strip(), split(), lower() and the f-string formatting are computed and  *)
(* not assumed.  A Python dict is modelled as a sequence of [k, v] records *)
(* in insertion order, which is the order a dict iterates in.              *)
(***************************************************************************)
EXTENDS Naturals, Sequences, FiniteSets

VARIABLES
    pc,                     \* position of the run inside main()
    exc,                    \* the unhandled exception that ended the run, or NoExc
    lookup_file,            \* lines of ./lookup.csv
    flow_file,              \* lines of ./flow_logs.txt
    output_file,            \* ./output.txt: [exists, data]
    open_files,             \* file objects currently open
    li,                     \* next line of the open lookup file
    fi,                     \* next line of the open flow file
    lookup_dict,            \* (dstport, protocol) -> list of tags
    tag_counts,             \* tag -> count
    port_protocol_counts    \* (dstport, protocol) -> count

vars == <<pc, exc, lookup_file, flow_file, output_file, open_files, li, fi,
          lookup_dict, tag_counts, port_protocol_counts>>

----------------------------------------------------------------------------
(* Bounds of the model and constants of the program.                       *)

MaxLookupRows == 2      \* data rows of the lookup file, rich lookup inputs
MaxFlowLines == 2       \* lines of the flow log, rich flow inputs
FewLookupRows == 1      \* data rows of the lookup file, rich flow inputs
FewFlowLines == 2       \* lines of the flow log, rich lookup inputs

LOOKUP_FIELDS == 3      \* len(parts) != 3
MIN_FLOW_FIELDS == 14   \* len(parts) < 14
DSTPORT_INDEX == 6      \* parts[6]
PROTOCOL_INDEX == 7     \* parts[7]

----------------------------------------------------------------------------
(* str methods.                                                            *)

\* The characters str.strip() and str.split() treat as whitespace (those
\* that occur in the inputs of the model).
Whitespace == {" ", "\t", "\n", "\r"}

UpperCase == <<"A", "B", "C", "D", "E", "F", "G", "H", "I", "J", "K", "L", "M",
               "N", "O", "P", "Q", "R", "S", "T", "U", "V", "W", "X", "Y", "Z">>
LowerCase == <<"a", "b", "c", "d", "e", "f", "g", "h", "i", "j", "k", "l", "m",
               "n", "o", "p", "q", "r", "s", "t", "u", "v", "w", "x", "y", "z">>

LowerChar(c) ==
    IF \E i \in 1..Len(UpperCase) : UpperCase[i] = c
    THEN LowerCase[CHOOSE i \in 1..Len(UpperCase) : UpperCase[i] = c]
    ELSE c

\* str.lower()
Lower(s) == [i \in 1..Len(s) |-> LowerChar(s[i])]

RECURSIVE LStrip(_)
LStrip(s) == IF s # <<>> /\ Head(s) \in Whitespace THEN LStrip(Tail(s)) ELSE s

RECURSIVE RStrip(_)
RStrip(s) ==
    IF s # <<>> /\ s[Len(s)] \in Whitespace
    THEN RStrip(SubSeq(s, 1, Len(s) - 1))
    ELSE s

\* str.strip()
Strip(s) == RStrip(LStrip(s))

\* Index, from i on, of the first character of s in chars (FirstIn) or not in
\* chars (FirstNotIn), or Len(s) + 1.
RECURSIVE FirstIn(_, _, _)
FirstIn(s, chars, i) ==
    IF i > Len(s) \/ s[i] \in chars THEN i ELSE FirstIn(s, chars, i + 1)

RECURSIVE FirstNotIn(_, _, _)
FirstNotIn(s, chars, i) ==
    IF i > Len(s) \/ s[i] \notin chars THEN i ELSE FirstNotIn(s, chars, i + 1)

\* str.split(sep): every occurrence of sep separates, empty tokens are kept,
\* the result is never empty.
RECURSIVE SplitOn(_, _)
SplitOn(s, sep) ==
    LET i == FirstIn(s, {sep}, 1)
    IN  IF i > Len(s)
        THEN <<s>>
        ELSE <<SubSeq(s, 1, i - 1)>> \o SplitOn(SubSeq(s, i + 1, Len(s)), sep)

\* str.split(): runs of whitespace separate, no token is empty, and a string
\* of whitespace alone gives the empty list.
RECURSIVE SplitWhitespace(_)
SplitWhitespace(s) ==
    LET b == FirstNotIn(s, Whitespace, 1)
        e == FirstIn(s, Whitespace, b)
    IN  IF b > Len(s)
        THEN <<>>
        ELSE <<SubSeq(s, b, e - 1)>> \o SplitWhitespace(SubSeq(s, e, Len(s)))

Digits == <<"0", "1", "2", "3", "4", "5", "6", "7", "8", "9">>

\* str(int) of a non-negative integer, as the f-string formats a count.
RECURSIVE IntToStr(_)
IntToStr(n) ==
    IF n < 10 THEN <<Digits[n + 1]>> ELSE IntToStr(n \div 10) \o <<Digits[(n % 10) + 1]>>

----------------------------------------------------------------------------
(* dict methods: a dict is a sequence of [k |-> key, v |-> value], one per *)
(* key, in insertion order.                                                *)

EmptyDict == <<>>

\* key in d
DictHas(d, key) == \E i \in 1..Len(d) : d[i].k = key

DictIndex(d, key) == CHOOSE i \in 1..Len(d) : d[i].k = key

\* d.get(key, default)
DictGet(d, key, default) == IF DictHas(d, key) THEN d[DictIndex(d, key)].v ELSE default

\* d[key] = value: an existing key keeps its place, a new key goes last.
DictSet(d, key, value) ==
    IF DictHas(d, key)
    THEN [d EXCEPT ![DictIndex(d, key)].v = value]
    ELSE Append(d, [k |-> key, v |-> value])

----------------------------------------------------------------------------
(* Text used by the program.                                               *)

TCP == <<"t", "c", "p">>
UDP == <<"u", "d", "p">>
ICMP == <<"i", "c", "m", "p">>
UNKNOWN == <<"u", "n", "k", "n", "o", "w", "n">>
UNTAGGED == <<"U", "n", "t", "a", "g", "g", "e", "d">>

\* PROTOCOL_MAP = {"6": "tcp", "17": "udp", "1": "icmp"}
PROTOCOL_MAP ==
    << [k |-> <<"6">>, v |-> TCP],
       [k |-> <<"1", "7">>, v |-> UDP],
       [k |-> <<"1">>, v |-> ICMP] >>

\* Variant: the number itself stands for an unrecognised protocol.
ProtocolNameRaw(protocol_num) == Lower(DictGet(PROTOCOL_MAP, protocol_num, protocol_num))

\* PROTOCOL_MAP.get(protocol_num, "unknown").lower()
ProtocolName(protocol_num) == Lower(DictGet(PROTOCOL_MAP, protocol_num, UNKNOWN))

----------------------------------------------------------------------------
(* load_lookup_table: the work done for one line of the lookup file.       *)

\* What "for line in file" yields for line i of a file: the line with its
\* terminator.
ReadLine(file, i) == file[i] \o <<"\n">>

\* parts = line.strip().split(",")
LookupParts(line) == SplitOn(Strip(line), ",")

\* Variant: a row of more than 3 fields is accepted.
IsLookupRowAtLeast(parts) == Len(parts) >= LOOKUP_FIELDS

\* if len(parts) != 3: continue
IsLookupRow(parts) == ~(Len(parts) # LOOKUP_FIELDS)

\* key = (parts[0].strip(), parts[1].strip().lower())
LookupKey(parts) == <<Strip(parts[1]), Lower(Strip(parts[2]))>>

\* tag = parts[2].strip()
LookupTag(parts) == Strip(parts[3])

\* Variant: the last row of a key replaces the earlier ones.
AddTagOverwriting(d, key, tag) == DictSet(d, key, <<tag>>)

\* if key in lookup_dict: lookup_dict[key].append(tag)
\* else: lookup_dict[key] = [tag]
AddTag(d, key, tag) ==
    IF DictHas(d, key)
    THEN DictSet(d, key, Append(DictGet(d, key, <<>>), tag))
    ELSE DictSet(d, key, <<tag>>)

\* The body of the loop over the lookup file.
LoadRow(d, line) ==
    LET parts == LookupParts(line)
    IN  IF IsLookupRow(parts) THEN AddTag(d, LookupKey(parts), LookupTag(parts)) ELSE d

----------------------------------------------------------------------------
(* process_flow_logs: the work done for one line of the flow log.          *)

\* parts = line.strip().split()
FlowParts(line) == SplitWhitespace(Strip(line))

\* Variant: a line of exactly 14 fields is skipped too.
IsFlowRecordOffByOne(parts) == ~(Len(parts) <= MIN_FLOW_FIELDS)

\* if len(parts) < 14: continue
IsFlowRecord(parts) == ~(Len(parts) < MIN_FLOW_FIELDS)

\* (dstport, protocol) = (parts[6], PROTOCOL_MAP.get(parts[7], "unknown").lower())
FlowKey(parts) == <<parts[DSTPORT_INDEX + 1], ProtocolName(parts[PROTOCOL_INDEX + 1])>>

\* Variant: the synthetic tag is spelled in lowercase.
ResolveTagsLowercase(d, key) == DictGet(d, key, <<Lower(UNTAGGED)>>)

\* tags = lookup_dict.get((dstport, protocol), ["Untagged"])
ResolveTags(d, key) == DictGet(d, key, <<UNTAGGED>>)

\* if key in counts: counts[key] += 1
\* else: counts[key] = 1
Increment(counts, key) ==
    IF DictHas(counts, key)
    THEN DictSet(counts, key, DictGet(counts, key, 0) + 1)
    ELSE DictSet(counts, key, 1)

\* Variant: only the first tag of the list is counted.
CountFirstTagOnly(counts, tags) ==
    IF tags = <<>> THEN counts ELSE Increment(counts, Head(tags))

\* for tag in tags: count the tag
RECURSIVE CountTags(_, _)
CountTags(counts, tags) ==
    IF tags = <<>> THEN counts ELSE CountTags(Increment(counts, Head(tags)), Tail(tags))

\* The body of the loop over the flow log, for the tag counts ...
TagCountsAfter(counts, d, line) ==
    LET parts == FlowParts(line)
    IN  IF IsFlowRecord(parts) THEN CountTags(counts, ResolveTags(d, FlowKey(parts))) ELSE counts

\* Variant: the count of a pair is set to one and never raised.
PortCountsAfterOverwriting(counts, line) ==
    LET parts == FlowParts(line)
    IN  IF IsFlowRecord(parts) THEN DictSet(counts, FlowKey(parts), 1) ELSE counts

\* ... and for the port/protocol counts.
PortCountsAfter(counts, line) ==
    LET parts == FlowParts(line)
    IN  IF IsFlowRecord(parts) THEN Increment(counts, FlowKey(parts)) ELSE counts

----------------------------------------------------------------------------
(* write_output: the text of the report.                                   *)

Reverse(s) == [i \in 1..Len(s) |-> s[Len(s) + 1 - i]]

\* One step of a stable ascending sort by count: x goes after every element
\* whose count is not greater.
RECURSIVE InsertByCount(_, _)
InsertByCount(sorted, x) ==
    IF sorted = <<>> THEN <<x>>
    ELSE IF sorted[Len(sorted)].v <= x.v THEN Append(sorted, x)
    ELSE Append(InsertByCount(SubSeq(sorted, 1, Len(sorted) - 1), x), sorted[Len(sorted)])

RECURSIVE StableSortByCount(_)
StableSortByCount(items) ==
    IF items = <<>> THEN <<>>
    ELSE InsertByCount(StableSortByCount(SubSeq(items, 1, Len(items) - 1)), items[Len(items)])

\* Variant: a descending order got by reversing an ascending stable sort.
SortedTagsReversedTies(counts) == Reverse(StableSortByCount(counts))

\* sorted(tag_counts.items(), key=lambda x: x[1], reverse=True): the list is
\* reversed, sorted by a stable ascending sort, and reversed again.
SortedTags(counts) == Reverse(StableSortByCount(Reverse(counts)))

TagSectionTitle ==
    <<"T", "a", "g", " ", "C", "o", "u", "n", "t", "s", ":", "\n">>
TagSectionColumns ==
    <<"T", "a", "g", ",", "C", "o", "u", "n", "t", "\n">>
PortSectionTitle ==
    <<"\n", "P", "o", "r", "t", "/", "P", "r", "o", "t", "o", "c", "o", "l",
      " ", "C", "o", "m", "b", "i", "n", "a", "t", "i", "o", "n", " ", "C",
      "o", "u", "n", "t", "s", ":", "\n">>
PortSectionColumns ==
    <<"P", "o", "r", "t", ",", "P", "r", "o", "t", "o", "c", "o", "l", ",",
      "C", "o", "u", "n", "t", "\n">>

\* f"{tag},{count}\n"
TagRow(item) == item.k \o <<",">> \o IntToStr(item.v) \o <<"\n">>

\* f"{port},{protocol},{count}\n"
PortRow(item) == item.k[1] \o <<",">> \o item.k[2] \o <<",">> \o IntToStr(item.v) \o <<"\n">>

RECURSIVE Concat(_)
Concat(strings) == IF strings = <<>> THEN <<>> ELSE Head(strings) \o Concat(Tail(strings))

\* Everything write_output writes, in order.
Report(tags, ports) ==
    TagSectionTitle \o TagSectionColumns
    \o Concat([i \in 1..Len(tags) |-> TagRow(SortedTags(tags)[i])])
    \o PortSectionTitle \o PortSectionColumns
    \o Concat([i \in 1..Len(ports) |-> PortRow(ports[i])])

----------------------------------------------------------------------------
(* The run of main(), one step per file operation or loop iteration.       *)

NoExc == [type |-> "none", at |-> "none"]

\* An exception nobody handles: the with-blocks close what is open, the
\* frames and their locals are gone, and the files are as they were.
Abort(type) ==
    /\ pc' = "error"
    /\ exc' = [type |-> type, at |-> pc]
    /\ open_files' = {}
    /\ li' = 0
    /\ fi' = 0
    /\ lookup_dict' = EmptyDict
    /\ tag_counts' = EmptyDict
    /\ port_protocol_counts' = EmptyDict
    /\ UNCHANGED <<lookup_file, flow_file, output_file>>

\* Variant: the output file is opened for writing before the inputs are read.
LoadOpenAfterOutput ==
    /\ pc = "main"
    /\ pc' = "load_header"
    /\ open_files' = open_files \cup {"lookup"}
    /\ li' = 1
    /\ lookup_dict' = EmptyDict
    /\ output_file' = [exists |-> TRUE, data |-> <<>>]
    /\ UNCHANGED <<exc, lookup_file, flow_file, fi, tag_counts, port_protocol_counts>>

\* open(lookup_file, 'r') succeeds.
LoadOpen ==
    /\ pc = "main"
    /\ pc' = "load_header"
    /\ open_files' = open_files \cup {"lookup"}
    /\ li' = 1
    /\ lookup_dict' = EmptyDict
    /\ UNCHANGED <<exc, lookup_file, flow_file, output_file, fi, tag_counts,
                   port_protocol_counts>>

\* open(lookup_file, 'r') raises (the file is missing or unreadable).
LoadOpenFail ==
    /\ pc = "main"
    /\ Abort("OSError")

\* next(file) on a file with a first line.
LoadSkipHeader ==
    /\ pc = "load_header"
    /\ li <= Len(lookup_file)
    /\ li' = li + 1
    /\ pc' = "load_loop"
    /\ UNCHANGED <<exc, lookup_file, flow_file, output_file, open_files, fi,
                   lookup_dict, tag_counts, port_protocol_counts>>

\* Variant: skipping the header of a file with no line is not an error.
LoadHeaderMissing ==
    /\ pc = "load_header"
    /\ li > Len(lookup_file)
    /\ li' = li + 1
    /\ pc' = "load_loop"
    /\ UNCHANGED <<exc, lookup_file, flow_file, output_file, open_files, fi,
                   lookup_dict, tag_counts, port_protocol_counts>>

\* next(file) on a file with no line at all.
LoadHeaderFail ==
    /\ pc = "load_header"
    /\ li > Len(lookup_file)
    /\ Abort("StopIteration")

\* One iteration of "for line in file" in load_lookup_table.
LoadLine ==
    /\ pc = "load_loop"
    /\ li <= Len(lookup_file)
    /\ lookup_dict' = LoadRow(lookup_dict, ReadLine(lookup_file, li))
    /\ li' = li + 1
    /\ UNCHANGED <<pc, exc, lookup_file, flow_file, output_file, open_files, fi,
                   tag_counts, port_protocol_counts>>

\* Reading the lookup file raises.
LoadReadFail ==
    /\ pc \in {"load_header", "load_loop"}
    /\ li <= Len(lookup_file)
    /\ Abort("OSError")

\* End of the lookup file: the file is closed, the table returned.
LoadReturn ==
    /\ pc = "load_loop"
    /\ li > Len(lookup_file)
    /\ open_files' = open_files \ {"lookup"}
    /\ li' = 0
    /\ pc' = "flow_open"
    /\ UNCHANGED <<exc, lookup_file, flow_file, output_file, fi, lookup_dict,
                   tag_counts, port_protocol_counts>>

\* open(flow_file, 'r') succeeds.
FlowOpen ==
    /\ pc = "flow_open"
    /\ pc' = "flow_loop"
    /\ open_files' = open_files \cup {"flow"}
    /\ fi' = 1
    /\ tag_counts' = EmptyDict
    /\ port_protocol_counts' = EmptyDict
    /\ UNCHANGED <<exc, lookup_file, flow_file, output_file, li, lookup_dict>>

\* open(flow_file, 'r') raises.
FlowOpenFail ==
    /\ pc = "flow_open"
    /\ Abort("OSError")

\* One iteration of "for line in file" in process_flow_logs.
FlowLine ==
    /\ pc = "flow_loop"
    /\ fi <= Len(flow_file)
    /\ tag_counts' = TagCountsAfter(tag_counts, lookup_dict, ReadLine(flow_file, fi))
    /\ port_protocol_counts' = PortCountsAfter(port_protocol_counts, ReadLine(flow_file, fi))
    /\ fi' = fi + 1
    /\ UNCHANGED <<pc, exc, lookup_file, flow_file, output_file, open_files, li,
                   lookup_dict>>

\* Reading the flow log raises.
FlowReadFail ==
    /\ pc = "flow_loop"
    /\ fi <= Len(flow_file)
    /\ Abort("OSError")

\* End of the flow log: the file is closed, the two tables returned.
FlowReturn ==
    /\ pc = "flow_loop"
    /\ fi > Len(flow_file)
    /\ open_files' = open_files \ {"flow"}
    /\ fi' = 0
    /\ pc' = "write_open"
    /\ UNCHANGED <<exc, lookup_file, flow_file, output_file, li, lookup_dict,
                   tag_counts, port_protocol_counts>>

\* open(output_file, 'w') succeeds: the file exists and is empty.
WriteOpen ==
    /\ pc = "write_open"
    /\ pc' = "write_body"
    /\ open_files' = open_files \cup {"output"}
    /\ output_file' = [exists |-> TRUE, data |-> <<>>]
    /\ UNCHANGED <<exc, lookup_file, flow_file, li, fi, lookup_dict, tag_counts,
                   port_protocol_counts>>

\* open(output_file, 'w') raises (the path is not writable).
WriteOpenFail ==
    /\ pc = "write_open"
    /\ Abort("OSError")

\* The writes of write_output and the close of the file.
WriteReport ==
    /\ pc = "write_body"
    /\ output_file' = [exists |-> TRUE, data |-> Report(tag_counts, port_protocol_counts)]
    /\ open_files' = open_files \ {"output"}
    /\ pc' = "done"
    /\ UNCHANGED <<exc, lookup_file, flow_file, li, fi, lookup_dict, tag_counts,
                   port_protocol_counts>>

Next ==
    \/ LoadOpen
    \/ LoadOpenFail
    \/ LoadSkipHeader
    \/ LoadHeaderFail
    \/ LoadLine
    \/ LoadReadFail
    \/ LoadReturn
    \/ FlowOpen
    \/ FlowOpenFail
    \/ FlowLine
    \/ FlowReadFail
    \/ FlowReturn
    \/ WriteOpen
    \/ WriteOpenFail
    \/ WriteReport

----------------------------------------------------------------------------
(* The files the run starts from.                                          *)

RECURSIVE Join(_, _)
Join(tokens, sep) ==
    IF Len(tokens) <= 1 THEN Concat(tokens)
    ELSE Head(tokens) \o sep \o Join(Tail(tokens), sep)

\* A flow log line of n fields separated by sep, with the given fields at
\* indexes 6 and 7.
FlowText(dstport, protocol_num, n, sep) ==
    Join([i \in 1..n |-> IF i = DSTPORT_INDEX + 1 THEN dstport
                         ELSE IF i = PROTOCOL_INDEX + 1 THEN protocol_num
                         ELSE <<"x">>], sep)

P23 == <<"2", "3">>
P9 == <<"9">>

FlowLines ==
    { FlowText(P23, <<"6">>, 14, <<" ">>),
      <<" ">> \o FlowText(P23, <<"1", "7">>, 15, <<" ", "\t">>),
      FlowText(P9, <<"1">>, 14, <<" ">>),
      FlowText(P9, <<"4", "7">>, 14, <<" ">>),
      FlowText(P23, <<"0", "6">>, 14, <<" ">>),
      FlowText(P23, TCP, 14, <<" ">>),
      FlowText(P23, <<"6">>, 13, <<" ">>),
      <<>> }

FewFlowLinesSet ==
    { FlowText(P23, <<"6">>, 14, <<" ">>),
      FlowText(P9, <<"4", "7">>, 14, <<" ">>) }

LookupHeaders ==
    { Join(<<<<"p">>, <<"q">>, <<"t">>>>, <<",">>),
      Join(<<P23, TCP, <<"h">>>>, <<",">>) }

LookupRows ==
    { Join(<<P23, TCP, <<"a">>>>, <<",">>),
      Join(<<P23, <<"T", "C", "P">>, <<"B">>>>, <<" ", ",", " ">>),
      Join(<<P23, TCP>>, <<",">>),
      Join(<<P23, TCP, <<"a">>, <<"b">>>>, <<",">>),
      <<>>,
      Join(<<P9, <<"U", "n", "k", "n", "o", "w", "n">>, <<"u">>>>, <<",">>) }

FewLookupRowsSet ==
    { Join(<<P23, TCP, <<"a">>>>, <<",">>),
      Join(<<P23, <<"T", "C", "P">>, UNTAGGED>>, <<",">>),
      Join(<<P9, <<"U", "N", "K", "N", "O", "W", "N">>, <<"u">>>>, <<",">>) }

SeqsUpTo(S, n) == UNION {[1..k -> S] : k \in 0..n}

OldReport == <<"o", "l", "d", "\n">>

\* Either many lookup files and a few flow logs, or a few lookup files and
\* many flow logs.
Inputs ==
    ({<<>>} \cup {<<h>> \o rows : h \in LookupHeaders, rows \in SeqsUpTo(LookupRows, MaxLookupRows)})
        \X SeqsUpTo(FewFlowLinesSet, FewFlowLines)
    \cup
    {<<Join(<<<<"p">>, <<"q">>, <<"t">>>>, <<",">>)>> \o rows : rows \in SeqsUpTo(FewLookupRowsSet, FewLookupRows)}
        \X SeqsUpTo(FlowLines, MaxFlowLines)

Init ==
    /\ pc = "main"
    /\ exc = NoExc
    /\ \E in \in Inputs : lookup_file = in[1] /\ flow_file = in[2]
    /\ output_file \in {[exists |-> FALSE, data |-> <<>>], [exists |-> TRUE, data |-> OldReport]}
    /\ open_files = {}
    /\ li = 0
    /\ fi = 0
    /\ lookup_dict = EmptyDict
    /\ tag_counts = EmptyDict
    /\ port_protocol_counts = EmptyDict

Spec == Init /\ [][Next]_vars

----------------------------------------------------------------------------
(* Vocabulary of the properties, stated on the files and not through the   *)
(* operators above.                                                        *)

AfterLoad == {"flow_open", "flow_loop", "write_open", "write_body", "done"}
AfterFlow == {"write_open", "write_body", "done"}
BeforeWrite == {"main", "load_header", "load_loop", "flow_open", "flow_loop"}

\* Lines of the lookup file and of the flow log consumed so far.
LookupConsumed ==
    IF pc = "load_loop" THEN li - 1 ELSE IF pc \in AfterLoad THEN Len(lookup_file) ELSE 0
FlowConsumed ==
    IF pc = "flow_loop" THEN fi - 1 ELSE IF pc \in AfterFlow THEN Len(flow_file) ELSE 0

RECURSIVE SumValues(_)
SumValues(d) == IF d = <<>> THEN 0 ELSE Head(d).v + SumValues(Tail(d))

Occurrences(x, list) == Cardinality({j \in 1..Len(list) : list[j] = x})

RECURSIVE OccurrencesIn(_, _)
OccurrencesIn(x, lists) ==
    IF lists = <<>> THEN 0 ELSE Occurrences(x, Head(lists)) + OccurrencesIn(x, Tail(lists))

Keys(d) == {d[i].k : i \in 1..Len(d)}
NoDuplicateKeys(d) == \A i, j \in 1..Len(d) : d[i].k = d[j].k => i = j

\* A token starts where a non-whitespace character follows whitespace or
\* the start of the line.
TokenStarts(line) ==
    {i \in 1..Len(line) : line[i] \notin Whitespace /\ (i = 1 \/ line[i - 1] \in Whitespace)}
WellFormed(line) == Cardinality(TokenStarts(line)) >= 14
Token(line, n) == SplitWhitespace(line)[n + 1]

NameOf(protocol_num) ==
    IF protocol_num = <<"6">> THEN TCP
    ELSE IF protocol_num = <<"1", "7">> THEN UDP
    ELSE IF protocol_num = <<"1">> THEN ICMP
    ELSE UNKNOWN

RecordKey(line) ==
    LET tokens == SplitWhitespace(line)
    IN  <<tokens[7], NameOf(tokens[8])>>

\* For each of the first n lines of the flow log: <<its key>> when it is a
\* well-formed record, <<>> when it is not.
FlowRecords(n) ==
    [i \in 1..n |-> IF WellFormed(flow_file[i]) THEN <<RecordKey(flow_file[i])>> ELSE <<>>]

\* The tags the lookup table gives a key.
ResolvedFor(key) ==
    IF DictHas(lookup_dict, key) THEN DictGet(lookup_dict, key, <<>>) ELSE <<UNTAGGED>>

\* For each of the first n lines of the flow log, the tags resolved for it
\* (none for a line that is not a record).
ResolvedLists(n) ==
    [i \in 1..n |->
        IF WellFormed(flow_file[i]) THEN ResolvedFor(RecordKey(flow_file[i])) ELSE <<>>]

\* A 3-field row of the lookup file, its key and its tag.
Commas(line) == {i \in 1..Len(line) : line[i] = ","}
IsRow(line) == Cardinality(Commas(line)) = 2
RowOf(line) ==
    LET fields == SplitOn(line, ",")
    IN  [k |-> <<Strip(fields[1]), Lower(Strip(fields[2]))>>, v |-> Strip(fields[3])]

\* For each of the first n lines of the lookup file: <<its row>> when it is
\* a 3-field line after the first, <<>> when it is not.
LookupRowsUpTo(n) ==
    [i \in 1..n |-> IF i >= 2 /\ IsRow(lookup_file[i]) THEN <<RowOf(lookup_file[i])>> ELSE <<>>]

\* The tags of the rows with the given key, in order.
RECURSIVE RowTags(_, _)
RowTags(key, rows) ==
    IF rows = <<>> THEN <<>>
    ELSE IF Head(rows) # <<>> /\ Head(rows)[1].k = key
         THEN <<Head(rows)[1].v>> \o RowTags(key, Tail(rows))
         ELSE RowTags(key, Tail(rows))

----------------------------------------------------------------------------
(* C1: at every point of process_flow_logs and after it, the values of     *)
(* Port/Protocol Counts sum to the number of consumed lines with at least  *)
(* 14 tokens, and the entry keyed (token[6], protocol name) holds the      *)
(* number of consumed records with that key, with or without a lookup      *)
(* entry for it.                                                           *)
C1_PortProtocolCounts ==
    pc \in {"flow_loop"} \cup AfterFlow =>
        \A records \in {FlowRecords(FlowConsumed)} :
            /\ SumValues(port_protocol_counts)
                   = Cardinality({i \in 1..FlowConsumed : records[i] # <<>>})
            /\ NoDuplicateKeys(port_protocol_counts)
            /\ \A i \in 1..FlowConsumed :
                   records[i] # <<>> =>
                       DictGet(port_protocol_counts, records[i][1], 0)
                           = Cardinality({j \in 1..FlowConsumed : records[j] = records[i]})

C1_Witness ==
    /\ pc = "done"
    /\ LET records == FlowRecords(FlowConsumed)
       IN  \E i, j \in 1..FlowConsumed :
               /\ records[i] # <<>>
               /\ records[j] # <<>>
               /\ DictHas(lookup_dict, records[i][1])
               /\ ~DictHas(lookup_dict, records[j][1])
               /\ DictGet(port_protocol_counts, records[j][1], 0) = 1

\* The tags of the lookup table.
LookupTags ==
    UNION {{lookup_dict[i].v[j] : j \in 1..Len(lookup_dict[i].v)} : i \in 1..Len(lookup_dict)}

(* C2: Tag Counts holds, for each tag, the number of times the tag occurs  *)
(* in the resolved tag lists of the consumed records, the resolved list    *)
(* being the lookup list of the record's key or ["Untagged"]; the values   *)
(* sum to the total length of those lists.                                 *)
C2_TagCounts ==
    pc \in {"flow_loop"} \cup AfterFlow =>
        \A resolved \in {ResolvedLists(FlowConsumed)} :
            /\ NoDuplicateKeys(tag_counts)
            /\ \A tag \in Keys(tag_counts) \cup {UNTAGGED} \cup LookupTags :
                   DictGet(tag_counts, tag, 0) = OccurrencesIn(tag, resolved)
            /\ SumValues(tag_counts) = Len(Concat(resolved))

C2_Witness ==
    /\ pc = "done"
    /\ Len(flow_file) = 2
    /\ LET resolved == ResolvedLists(2)
           records == FlowRecords(2)
       IN  /\ Len(resolved[1]) = 2
           /\ records[2] # <<>>
           /\ ~DictHas(lookup_dict, records[2][1])
    /\ SumValues(tag_counts) = 3

----------------------------------------------------------------------------
RECURSIVE TagCountsOf(_, _)
TagCountsOf(lines, d) ==
    IF lines = <<>> THEN EmptyDict
    ELSE TagCountsAfter(TagCountsOf(SubSeq(lines, 1, Len(lines) - 1), d), d,
                        ReadLine(lines, Len(lines)))

RECURSIVE PortCountsOf(_)
PortCountsOf(lines) ==
    IF lines = <<>> THEN EmptyDict
    ELSE PortCountsAfter(PortCountsOf(SubSeq(lines, 1, Len(lines) - 1)),
                         ReadLine(lines, Len(lines)))

\* A step that is one iteration of the loop of process_flow_logs.
FlowIteration == pc = "flow_loop" /\ fi' = fi + 1

ShortLineStep ==
    FlowIteration =>
        IF WellFormed(flow_file[fi])
        THEN tag_counts' # tag_counts /\ port_protocol_counts' # port_protocol_counts
        ELSE /\ UNCHANGED <<tag_counts, port_protocol_counts>>
             /\ pc' = "flow_loop"
             /\ exc' = NoExc

ShortLinesDeleted ==
    pc \in AfterFlow =>
        \A kept \in {SelectSeq(flow_file, WellFormed)} :
            /\ tag_counts = TagCountsOf(kept, lookup_dict)
            /\ port_protocol_counts = PortCountsOf(kept)

(* C3: an iteration of process_flow_logs over a line with fewer than 14   *)
(* tokens leaves both tables as they were and the loop goes on; over a     *)
(* line with 14 tokens or more it changes both tables; so the tables       *)
(* returned are those of the same log with the short lines deleted.        *)
C3_ShortLinesIgnored == [][ShortLineStep]_vars /\ []ShortLinesDeleted

C3_Witness ==
    /\ pc = "done"
    /\ Len(flow_file) = 2
    /\ Cardinality(TokenStarts(flow_file[1])) = 13
    /\ Cardinality(TokenStarts(flow_file[2])) = 14
    /\ SumValues(port_protocol_counts) = 1
    /\ SumValues(tag_counts) = 1

----------------------------------------------------------------------------
RowKeys(rows) == {rows[i][1].k : i \in {j \in DOMAIN rows : rows[j] # <<>>}}

(* C4: the table of load_lookup_table maps every key to the trimmed tags   *)
(* of the 3-field rows after the header that have the key (port trimmed,   *)
(* protocol trimmed and lowercased), in file order, repeated tags kept and *)
(* the case of the tags unchanged; so N rows sharing a key give a list of  *)
(* length N.                                                               *)
C4_TagsInFileOrder ==
    pc \in {"load_loop"} \cup AfterLoad =>
        \A rows \in {LookupRowsUpTo(LookupConsumed)} :
            /\ NoDuplicateKeys(lookup_dict)
            /\ Keys(lookup_dict) = RowKeys(rows)
            /\ \A key \in RowKeys(rows) :
                   /\ DictGet(lookup_dict, key, <<>>) = RowTags(key, rows)
                   /\ Len(DictGet(lookup_dict, key, <<>>))
                          = Cardinality({i \in 1..LookupConsumed :
                                            rows[i] # <<>> /\ rows[i][1].k = key})

C4_Witness ==
    /\ pc = "flow_open"
    /\ Len(lookup_file) = 3
    /\ lookup_file[2] # lookup_file[3]
    /\ DictGet(lookup_dict, <<P23, TCP>>, <<>>) = << <<"B">>, <<"a">> >>

----------------------------------------------------------------------------
RECURSIVE StoredTags(_)
StoredTags(d) == IF d = <<>> THEN 0 ELSE Len(Head(d).v) + StoredTags(Tail(d))

TagTotal ==
    /\ pc = "load_header" => lookup_dict = EmptyDict
    /\ pc \in {"load_loop"} \cup AfterLoad =>
           StoredTags(lookup_dict)
               = Cardinality({i \in 2..LookupConsumed : IsRow(lookup_file[i])})

LookupStep ==
    /\ pc = "load_header" /\ pc' = "load_loop" => lookup_dict' = EmptyDict
    /\ pc = "load_loop" /\ li' = li + 1 /\ ~IsRow(lookup_file[li]) =>
           lookup_dict' = lookup_dict /\ pc' = "load_loop" /\ exc' = NoExc

(* C5: the first line of the lookup file never contributes, a later line   *)
(* that does not split into exactly 3 tokens leaves the table as it was    *)
(* and the loop goes on, and the number of tags stored over all keys is    *)
(* the number of 3-field lines after the first.                            *)
C5_OnlyThreeFieldRows == []TagTotal /\ [][LookupStep]_vars

C5_Witness ==
    /\ pc = "flow_open"
    /\ Len(lookup_file) = 3
    /\ IsRow(lookup_file[1])
    /\ Cardinality(Commas(lookup_file[2])) \in {1, 3}
    /\ IsRow(lookup_file[3])
    /\ StoredTags(lookup_dict) = 1

----------------------------------------------------------------------------
InitialOutputs == {[exists |-> FALSE, data |-> <<>>], [exists |-> TRUE, data |-> OldReport]}

RunOrder ==
    /\ output_file' # output_file => pc \in {"write_open", "write_body"}
    /\ pc' = "load_header" /\ pc # pc' => pc = "main"
    /\ pc' = "load_loop" /\ pc # pc' => pc = "load_header"
    /\ pc' = "flow_open" /\ pc # pc' =>
           pc = "load_loop" /\ li > Len(lookup_file) /\ "lookup" \notin open_files'
    /\ pc' = "flow_loop" /\ pc # pc' => pc = "flow_open"
    /\ pc' = "write_open" /\ pc # pc' =>
           pc = "flow_loop" /\ fi > Len(flow_file) /\ open_files' = {}
    /\ pc' = "write_body" /\ pc # pc' => pc = "write_open"
    /\ pc' = "error" /\ pc # pc' => output_file' = output_file /\ open_files' = {}

OutputUntouched ==
    /\ "output" \in open_files => pc = "write_body"
    /\ pc \in BeforeWrite \/ (pc = "error" /\ exc.at \in BeforeWrite) =>
           output_file \in InitialOutputs

(* C6: the output file changes only in write_output, which starts only     *)
(* after the lookup file and then the flow log were read to their end and  *)
(* closed; a run that fails in load_lookup_table or process_flow_logs      *)
(* leaves the output file absent or as it was.                             *)
C6_OutputOnlyAfterInputs == [][RunOrder]_vars /\ []OutputUntouched

C6_Witness ==
    /\ pc = "error"
    /\ exc.at = "flow_loop"
    /\ Len(flow_file) = 2
    /\ output_file = [exists |-> TRUE, data |-> OldReport]

----------------------------------------------------------------------------
DigitValue(c) == CHOOSE n \in 0..9 : Digits[n + 1] = c

RECURSIVE StrToInt(_)
StrToInt(s) ==
    IF s = <<>> THEN 0
    ELSE StrToInt(SubSeq(s, 1, Len(s) - 1)) * 10 + DigitValue(s[Len(s)])

\* The lines between the two column lines of the tag section and the blank
\* line that ends it, each read back as a (tag, count) pair.
ReportTagRows ==
    LET lines == SplitOn(output_file.data, "\n")
        blank == CHOOSE i \in 3..Len(lines) :
                     lines[i] = <<>> /\ \A j \in 3..(i - 1) : lines[j] # <<>>
    IN  [i \in 1..(blank - 3) |->
            LET fields == SplitOn(lines[i + 2], ",")
            IN  [k |-> fields[1], v |-> StrToInt(fields[2])]]

(* C7: the tag rows of the report hold every (tag, count) pair of Tag      *)
(* Counts exactly once, with counts that never increase from top to        *)
(* bottom, and tags of equal count in the order in which they entered Tag  *)
(* Counts.                                                                 *)
C7_TagRowsOrdered ==
    pc = "done" =>
        LET rows == ReportTagRows
        IN  /\ Len(rows) = Len(tag_counts)
            /\ \A i \in 1..Len(tag_counts) :
                   Cardinality({j \in 1..Len(rows) : rows[j] = tag_counts[i]}) = 1
            /\ \A j, k \in 1..Len(rows) : j < k => rows[j].v >= rows[k].v
            /\ \A j, k \in 1..Len(rows) :
                   j < k /\ rows[j].v = rows[k].v =>
                       DictIndex(tag_counts, rows[j].k) < DictIndex(tag_counts, rows[k].k)

C7_Witness ==
    /\ pc = "done"
    /\ Len(tag_counts) = 3
    /\ tag_counts[1].v = tag_counts[2].v
    /\ tag_counts[2].v = tag_counts[3].v

----------------------------------------------------------------------------
\* The consumed records whose key has no entry in the lookup table.
Unmatched(records) ==
    {i \in DOMAIN records : records[i] # <<>> /\ ~DictHas(lookup_dict, records[i][1])}

\* For each consumed line, the lookup list of its key when it has one.
MatchedLists(records) ==
    [i \in DOMAIN records |->
        IF records[i] # <<>> /\ DictHas(lookup_dict, records[i][1])
        THEN DictGet(lookup_dict, records[i][1], <<>>)
        ELSE <<>>]

(* C8, as amended: the count under "Untagged" is the number of consumed    *)
(* records whose key has no lookup entry plus the number of times the tag  *)
(* "Untagged" occurs in the lookup lists of the consumed records whose key *)
(* has one.                                                                *)
C8_UntaggedCount ==
    pc \in {"flow_loop"} \cup AfterFlow =>
        \A records \in {FlowRecords(FlowConsumed)} :
            DictGet(tag_counts, UNTAGGED, 0)
                = Cardinality(Unmatched(records))
                  + OccurrencesIn(UNTAGGED, MatchedLists(records))

C8_Witness ==
    /\ pc = "done"
    /\ LET records == FlowRecords(FlowConsumed)
       IN  /\ Cardinality(Unmatched(records)) = 1
           /\ OccurrencesIn(UNTAGGED, MatchedLists(records)) = 1
    /\ DictGet(tag_counts, UNTAGGED, 0) = 2

(* C8, as first stated: the count under "Untagged" is the number of        *)
(* well-formed records whose key has no lookup entry.                      *)
C8_UntaggedIsUnmatched ==
    pc \in AfterFlow =>
        DictGet(tag_counts, UNTAGGED, 0) = Cardinality(Unmatched(FlowRecords(FlowConsumed)))

----------------------------------------------------------------------------
\* The tags of the lookup rows of a port whose protocol column is "unknown"
\* in any letter case, or "Untagged" when there is no such row.
TagsOfUnknown(port) ==
    IF RowTags(<<port, UNKNOWN>>, LookupRowsUpTo(Len(lookup_file))) # <<>>
    THEN RowTags(<<port, UNKNOWN>>, LookupRowsUpTo(Len(lookup_file)))
    ELSE <<UNTAGGED>>

ProtocolStep ==
    FlowIteration /\ WellFormed(flow_file[fi]) =>
        \A tokens \in {SplitWhitespace(flow_file[fi])} :
            LET port == tokens[7]
                num == tokens[8]
                name == NameOf(num)
            IN  /\ ProtocolName(num) = name
                /\ DictGet(port_protocol_counts', <<port, name>>, 0)
                       = DictGet(port_protocol_counts, <<port, name>>, 0) + 1
                /\ SumValues(port_protocol_counts') = SumValues(port_protocol_counts) + 1
                /\ num \notin {<<"6">>, <<"1", "7">>, <<"1">>} =>
                       /\ name = UNKNOWN
                       /\ \A expected \in {TagsOfUnknown(port)} :
                              \A tag \in Keys(tag_counts)
                                         \cup {tag_counts'[i].k : i \in 1..Len(tag_counts')}
                                         \cup {expected[i] : i \in 1..Len(expected)} :
                                  DictGet(tag_counts', tag, 0)
                                      = DictGet(tag_counts, tag, 0) + Occurrences(tag, expected)

(* C9: the protocol name of a record is tcp, udp or icmp exactly for the   *)
(* tokens "6", "17" and "1" and unknown for any other; the record is       *)
(* counted under (port, that name); and a record of an unrecognised        *)
(* protocol number gets the tags of the lookup rows of its port whose      *)
(* protocol column is "unknown" in any letter case, or "Untagged" when     *)
(* there is no such row.                                                   *)
C9_ProtocolNames == [][ProtocolStep]_vars

C9_Witness ==
    /\ pc = "done"
    /\ Len(flow_file) = 2
    /\ WellFormed(flow_file[1])
    /\ WellFormed(flow_file[2])
    /\ Token(flow_file[1], 7) = <<"4", "7">>
    /\ Token(flow_file[2], 7) = TCP
    /\ DictGet(tag_counts, <<"u">>, 0) = 1
    /\ DictGet(tag_counts, UNTAGGED, 0) = 1
    /\ DictGet(port_protocol_counts, <<P9, UNKNOWN>>, 0) = 1
    /\ DictGet(port_protocol_counts, <<P23, UNKNOWN>>, 0) = 1

----------------------------------------------------------------------------
(* C10: with a lookup file of no lines the run ends in load_lookup_table   *)
(* with the error of next(file), before the flow log is opened and with    *)
(* the output file untouched; with a lookup file of a header line alone    *)
(* the table is empty and every record is counted as "Untagged".           *)
C10_EmptyLookupFile ==
    /\ Len(lookup_file) = 0 =>
           /\ pc \in {"main", "load_header", "error"}
           /\ pc = "error" => exc.at \in {"main", "load_header"}
           /\ exc.at = "load_header" => exc.type = "StopIteration"
           /\ lookup_dict = EmptyDict
           /\ open_files \subseteq {"lookup"}
           /\ output_file \in InitialOutputs
    /\ Len(lookup_file) = 1 /\ pc \in AfterLoad =>
           /\ lookup_dict = EmptyDict
           /\ pc \in AfterFlow =>
                  LET n == Cardinality({i \in 1..Len(flow_file) : WellFormed(flow_file[i])})
                  IN  tag_counts = IF n = 0 THEN EmptyDict ELSE <<[k |-> UNTAGGED, v |-> n]>>

C10_Witness ==
    /\ pc = "error"
    /\ exc = [type |-> "StopIteration", at |-> "load_header"]
    /\ Len(lookup_file) = 0
    /\ output_file = [exists |-> TRUE, data |-> OldReport]

====
